---- MODULE Spec2Model ----
(***************************************************************************)
(* Model of the API key input of crush                                     *)
(* (internal/tui/components/dialogs/models/apikey.go): the lifecycle       *)
(* state, the focus tracking, the host-delivered paste and the             *)
(* timeout-guarded clipboard read behind the paste shortcuts.              *)
(*                                                                         *)
(* Strings are sequences of one-character strings.  Time is counted in     *)
(* whole seconds.  The text widget (bubbles textinput.Model) is a record   *)
(* [value, pos, focus]; its operations are modelled at the places the      *)
(* component calls them.  Buffer characters are ASCII, so byte and rune    *)
(* offsets coincide.                                                       *)
(***************************************************************************)
EXTENDS Integers, Sequences, FiniteSets, TLC

VARIABLES
    a,        \* the *APIKeyInput: [state, focused, lastFocusTime, input]
    now,      \* time.Now(), in seconds
    pc,       \* where the event loop is: "idle", or "select" inside handleSafePaste
    ch,       \* resultChan of the read the event loop waits on: <<>> or <<result>>
    reading,  \* goroutines still inside clipboard.ReadAll(), the awaited one included
    abandoned,\* of those, the ones whose select already took the deadline branch
    last,     \* history: the step taken last and the state it started from
    sanIn,    \* sanitization harness: the input string
    sanOut,   \* sanitization harness: the results computed so far
    sanPc     \* sanitization harness: position

vars == <<a, now, pc, ch, reading, abandoned, last, sanIn, sanOut, sanPc>>

----------------------------------------------------------------------------
(* Bounds of the model *)

MaxContent == 3
MaxTime == 3
MaxReading == 2
MaxSanLen == 4

----------------------------------------------------------------------------
(* Program constants *)

APIKeyInputStateInitial == 0
APIKeyInputStateVerifying == 1
APIKeyInputStateVerified == 2
APIKeyInputStateError == 3

APIKeyInputState ==
    {APIKeyInputStateInitial, APIKeyInputStateVerifying,
     APIKeyInputStateVerified, APIKeyInputStateError}

FocusThreshold == 2
ClipboardDeadline == 1

LF == "\n"
SP == " "
CR == "\r"

PasteKeys == {"ctrl+v", "ctrl+shift+v", "shift+insert"}
OtherKeys == {"a", "left"}
Keys == PasteKeys \cup OtherKeys

(* Paste payloads and clipboard contents the environment may deliver. *)
Payloads ==
    { <<>>, <<LF, SP>>, <<"k", LF>>, <<SP, "k", LF, "k">> }

NoCmd == "nil"
SpinnerTick == "spinner.Tick"

----------------------------------------------------------------------------
(* strings.ReplaceAll(s, "\n", "") and strings.TrimSpace *)

IsSpace(c) == c \in {SP, LF, CR, "\t"}

ReplaceAllNewline(s) == SelectSeq(s, LAMBDA c : c # LF)

RECURSIVE TrimLeft(_)
TrimLeft(s) ==
    IF s # <<>> /\ IsSpace(Head(s)) THEN TrimLeft(Tail(s)) ELSE s

RECURSIVE TrimRight(_)
TrimRight(s) ==
    IF s # <<>> /\ IsSpace(s[Len(s)]) THEN TrimRight(SubSeq(s, 1, Len(s) - 1)) ELSE s

(* strings.TrimSpace that trims nothing *)
TrimSpaceNone(s) == s

TrimSpace(s) == TrimRight(TrimLeft(s))

(* line 237: the clipboard path *)
SanitizeClipboard(s) == TrimSpace(ReplaceAllNewline(s))

(* The host-delivered path without the removal of the newlines *)
SanitizePasteTrimOnly(s) == TrimSpace(s)

(* line 277: the host-delivered path *)
SanitizePaste(s) == TrimSpace(ReplaceAllNewline(s))

----------------------------------------------------------------------------
(* The text widget, as the component uses it *)

Clamp(p, lo, hi) == IF p < lo THEN lo ELSE IF p > hi THEN hi ELSE p

InputFocus(in) == [in EXCEPT !.focus = TRUE]

InputBlur(in) == [in EXCEPT !.focus = FALSE]

(* SetValue that never moves the cursor *)
InputSetValueKeepsCursor(in, s) == [in EXCEPT !.value = s]

(* SetValue keeps the cursor, except that it moves to the end when the
   widget was empty with the cursor at 0 or when the cursor falls outside. *)
InputSetValue(in, s) ==
    [in EXCEPT !.value = s,
               !.pos = IF (in.pos = 0 /\ in.value = <<>>) \/ in.pos > Len(s)
                       THEN Len(s) ELSE in.pos]

InputSetCursor(in, p) == [in EXCEPT !.pos = Clamp(p, 0, Len(in.value))]

(* currentValue[:cursorPos] + text + currentValue[cursorPos:] *)
Splice(v, p, text) == SubSeq(v, 1, p) \o text \o SubSeq(v, p + 1, Len(v))

(* a.input.Update(msg) for an ordinary key: ignored unless the widget is focused *)
InputUpdateKey(in, k) ==
    IF ~in.focus THEN in
    ELSE IF k = "left" THEN [in EXCEPT !.pos = Clamp(in.pos - 1, 0, Len(in.value))]
    ELSE [in EXCEPT !.value = Splice(in.value, in.pos, <<k>>), !.pos = in.pos + 1]

----------------------------------------------------------------------------
(* updateStatePresentation *)

(* updateStatePresentation whose Error case only focuses the text input *)
updateStatePresentationErrorInputOnly(a0, t) ==
    IF a0.state = APIKeyInputStateInitial
    THEN IF a0.focused THEN [a0 EXCEPT !.input = InputFocus(a0.input)] ELSE a0
    ELSE IF a0.state = APIKeyInputStateVerifying \/ a0.state = APIKeyInputStateVerified
    THEN [a0 EXCEPT !.input = InputBlur(a0.input)]
    ELSE [a0 EXCEPT !.input = InputFocus(a0.input)]

updateStatePresentation(a0, t) ==
    IF a0.state = APIKeyInputStateInitial
    THEN IF a0.focused THEN [a0 EXCEPT !.input = InputFocus(a0.input)] ELSE a0
    ELSE IF a0.state = APIKeyInputStateVerifying \/ a0.state = APIKeyInputStateVerified
    THEN [a0 EXCEPT !.input = InputBlur(a0.input)]
    ELSE [a0 EXCEPT !.input = InputFocus(a0.input),
                    !.focused = TRUE,
                    !.lastFocusTime = t]

(* NewAPIKeyInput *)
NewAPIKeyInput(t) ==
    [state |-> APIKeyInputStateInitial,
     focused |-> TRUE,
     lastFocusTime |-> t,
     input |-> [value |-> <<>>, pos |-> 0, focus |-> TRUE]]

----------------------------------------------------------------------------
(* handlePasteMsg: the host-delivered paste (tea.PasteMsg) *)

(* handlePasteMsg that appends the text instead of inserting it at the cursor *)
handlePasteMsgAppend(a0, msg) ==
    LET a1 == IF a0.state = APIKeyInputStateInitial \/ a0.state = APIKeyInputStateError
              THEN [a0 EXCEPT !.input = InputFocus(a0.input)]
              ELSE a0
        pasteContent == SanitizePaste(msg)
        cursorPos == a1.input.pos
        newValue == a1.input.value \o pasteContent
    IN  IF pasteContent # <<>>
        THEN [a1 EXCEPT !.input =
                 InputSetCursor(InputSetValue(a1.input, newValue),
                                cursorPos + Len(pasteContent))]
        ELSE a1

(* handlePasteMsg behind the focus gate of the paste shortcuts *)
handlePasteMsgFocusGated(a0, msg) ==
    LET a1 == IF a0.state = APIKeyInputStateInitial \/ a0.state = APIKeyInputStateError
              THEN [a0 EXCEPT !.input = InputFocus(a0.input)]
              ELSE a0
        pasteContent == SanitizePaste(msg)
        cursorPos == a1.input.pos
        newValue == Splice(a1.input.value, cursorPos, pasteContent)
    IN  IF pasteContent # <<>> /\ a0.focused
        THEN [a1 EXCEPT !.input =
                 InputSetCursor(InputSetValue(a1.input, newValue),
                                cursorPos + Len(pasteContent))]
        ELSE a1

(* handlePasteMsg that focuses the text input in every lifecycle state *)
handlePasteMsgFocusAlways(a0, msg) ==
    LET a1 == [a0 EXCEPT !.input = InputFocus(a0.input)]
        pasteContent == SanitizePaste(msg)
        cursorPos == a1.input.pos
        newValue == Splice(a1.input.value, cursorPos, pasteContent)
    IN  IF pasteContent # <<>>
        THEN [a1 EXCEPT !.input =
                 InputSetCursor(InputSetValue(a1.input, newValue),
                                cursorPos + Len(pasteContent))]
        ELSE a1

handlePasteMsg(a0, msg) ==
    LET a1 == IF a0.state = APIKeyInputStateInitial \/ a0.state = APIKeyInputStateError
              THEN [a0 EXCEPT !.input = InputFocus(a0.input)]
              ELSE a0
        pasteContent == SanitizePaste(msg)
        cursorPos == a1.input.pos
        newValue == Splice(a1.input.value, cursorPos, pasteContent)
    IN  IF pasteContent # <<>>
        THEN [a1 EXCEPT !.input =
                 InputSetCursor(InputSetValue(a1.input, newValue),
                                cursorPos + Len(pasteContent))]
        ELSE a1

----------------------------------------------------------------------------
(* handleSafePaste: the paste shortcuts *)

(* PasteAllowed without the check of the lifecycle state *)
PasteAllowedAnyState(a0) == TRUE

(* line 172: paste is allowed only where the input is editable *)
PasteAllowed(a0) ==
    ~(a0.state # APIKeyInputStateInitial /\ a0.state # APIKeyInputStateError)

(* handleSafePaste without the focus gate *)
FocusLostNever(a0, t) == FALSE

(* line 181: !a.focused || timeSinceFocus > 2*time.Second *)
FocusLost(a0, t) == ~a0.focused \/ t - a0.lastFocusTime > FocusThreshold

(* lines 185-190: regain focus, refresh the presentation, no clipboard access *)
RegainFocus(a0, t) ==
    updateStatePresentation(
        [a0 EXCEPT !.input = InputFocus(a0.input),
                   !.focused = TRUE,
                   !.lastFocusTime = t], t)

(* lines 199-201 *)
EnsureFocus(a0, t) ==
    [a0 EXCEPT !.input = InputFocus(a0.input),
               !.focused = TRUE,
               !.lastFocusTime = t]

(* The goroutine without the conversion of a panic into an error result *)
GoroutineResultPanicLost(outcome) ==
    [content |-> outcome.content, err |-> outcome.kind = "error"]

(* lines 214-225: what the goroutine sends on resultChan; a panic of
   clipboard.ReadAll is recovered and sent as an error *)
GoroutineResult(outcome) ==
    [content |-> outcome.content, err |-> outcome.kind # "text"]

(* The result branch without the SetCursor after the SetValue *)
ApplyClipboardResultNoCursor(a0, result) ==
    LET clipboardContent == SanitizeClipboard(result.content)
        cursorPos == a0.input.pos
        newValue == Splice(a0.input.value, cursorPos, clipboardContent)
    IN  IF result.err THEN a0
        ELSE IF clipboardContent = <<>> THEN a0
        ELSE [a0 EXCEPT !.input = InputSetValue(a0.input, newValue)]

(* The result branch that empties the input when the read failed *)
ApplyClipboardResultErrClears(a0, result) ==
    LET clipboardContent == SanitizeClipboard(result.content)
        cursorPos == a0.input.pos
        newValue == Splice(a0.input.value, cursorPos, clipboardContent)
    IN  IF result.err THEN [a0 EXCEPT !.input = InputSetValue(a0.input, <<>>)]
        ELSE IF clipboardContent = <<>> THEN a0
        ELSE [a0 EXCEPT !.input =
                 InputSetCursor(InputSetValue(a0.input, newValue),
                                cursorPos + Len(clipboardContent))]

(* lines 229-258: the result branch of the select *)
ApplyClipboardResult(a0, result) ==
    LET clipboardContent == SanitizeClipboard(result.content)
        cursorPos == a0.input.pos
        newValue == Splice(a0.input.value, cursorPos, clipboardContent)
    IN  IF result.err THEN a0
        ELSE IF clipboardContent = <<>> THEN a0
        ELSE [a0 EXCEPT !.input =
                 InputSetCursor(InputSetValue(a0.input, newValue),
                                cursorPos + Len(clipboardContent))]

(* handleSafePaste that starts a second read beside the first *)
handleSafePasteTwoReads(a0) ==
    IF ~PasteAllowed(a0)
    THEN /\ a' = a0
         /\ UNCHANGED <<pc, ch, reading>>
    ELSE IF FocusLost(a0, now)
    THEN /\ a' = RegainFocus(a0, now)
         /\ UNCHANGED <<pc, ch, reading>>
    ELSE /\ reading + 1 < MaxReading
         /\ now + ClipboardDeadline <= MaxTime
         /\ a' = EnsureFocus(a0, now)
         /\ pc' = "select"
         /\ ch' = <<>>
         /\ reading' = reading + 2

(* lines 168-225: up to the select.  Either returns at once (pc stays
   "idle") or starts the goroutine and waits in the select.  The model
   starts a read only while it has room for one more goroutine and for the
   second the deadline takes. *)
handleSafePaste(a0) ==
    IF ~PasteAllowed(a0)
    THEN /\ a' = a0
         /\ UNCHANGED <<pc, ch, reading>>
    ELSE IF FocusLost(a0, now)
    THEN /\ a' = RegainFocus(a0, now)
         /\ UNCHANGED <<pc, ch, reading>>
    ELSE /\ reading < MaxReading
         /\ now + ClipboardDeadline <= MaxTime
         /\ a' = EnsureFocus(a0, now)
         /\ pc' = "select"
         /\ ch' = <<>>
         /\ reading' = reading + 1

(* What the environment can make clipboard.ReadAll do *)
Outcomes ==
    [kind : {"text"}, content : Payloads]
        \cup {[kind |-> "error", content |-> <<>>],
              [kind |-> "panic", content |-> <<>>]}

----------------------------------------------------------------------------
(* History *)

Step(ev, arg, cmd) ==
    [ev |-> ev, arg |-> arg, cmd |-> cmd, pre |-> a, preNow |-> now,
     prePc |-> pc, preCh |-> ch, launched |-> reading' > reading,
     panic |-> FALSE, model |-> "a", preReading |-> reading]

(* The step of an Update during which a callee panicked; model is the
   tea.Model that Update returned *)
PanicStep(ev, arg, model) ==
    [Step(ev, arg, NoCmd) EXCEPT !.panic = TRUE, !.model = model]

SanIdle == UNCHANGED <<sanIn, sanOut, sanPc>>

Fits(v, text) == Len(v) + Len(text) <= MaxContent

----------------------------------------------------------------------------
(* Update, one action per message type *)

(* A tea.FocusMsg handled while handleSafePaste still waits in the select *)
UpdateFocusMsgConcurrent ==
    /\ a' = [a EXCEPT !.focused = TRUE,
                      !.lastFocusTime = now,
                      !.input = InputFocus(a.input)]
    /\ UNCHANGED <<now, pc, ch, reading, abandoned>>
    /\ last' = Step("FocusMsg", "", NoCmd)
    /\ SanIdle

UpdateFocusMsg ==
    /\ pc = "idle"
    /\ a' = [a EXCEPT !.focused = TRUE,
                      !.lastFocusTime = now,
                      !.input = InputFocus(a.input)]
    /\ UNCHANGED <<now, pc, ch, reading, abandoned>>
    /\ last' = Step("FocusMsg", "", NoCmd)
    /\ SanIdle

(* The tea.BlurMsg branch that also blurs the text input *)
UpdateBlurMsgBlursInput ==
    /\ pc = "idle"
    /\ a' = [a EXCEPT !.focused = FALSE, !.input = InputBlur(a.input)]
    /\ UNCHANGED <<now, pc, ch, reading, abandoned>>
    /\ last' = Step("BlurMsg", "", NoCmd)
    /\ SanIdle

UpdateBlurMsg ==
    /\ pc = "idle"
    /\ a' = [a EXCEPT !.focused = FALSE]
    /\ UNCHANGED <<now, pc, ch, reading, abandoned>>
    /\ last' = Step("BlurMsg", "", NoCmd)
    /\ SanIdle

(* lines 115-138 *)
(* The key press that sets focused without the time of the confirmation *)
KeyFocusFlagOnly(a0, t) == [a0 EXCEPT !.focused = TRUE]

KeyFocus(a0, t) == [a0 EXCEPT !.focused = TRUE, !.lastFocusTime = t]

(* key.Matches for ctrl+v alone *)
IsPasteKeyCtrlVOnly(k) == k = "ctrl+v"

IsPasteKey(k) == k = "ctrl+v" \/ k = "ctrl+shift+v" \/ k = "shift+insert"

(* updateTextInput that also leaves the Error state when a key is typed *)
updateTextInputClearsError(a0, k) ==
    [a0 EXCEPT !.input = InputUpdateKey(a0.input, k),
               !.state = IF a0.state = APIKeyInputStateError
                         THEN APIKeyInputStateInitial ELSE a0.state]

updateTextInput(a0, k) == [a0 EXCEPT !.input = InputUpdateKey(a0.input, k)]

UpdateKeyPressMsg(k) ==
    /\ pc = "idle"
    /\ IF IsPasteKey(k)
       THEN /\ handleSafePaste(KeyFocus(a, now))
            /\ UNCHANGED abandoned
       ELSE /\ k = "left" \/ Len(a.input.value) < MaxContent
            /\ a' = updateTextInput(KeyFocus(a, now), k)
            /\ UNCHANGED <<pc, ch, reading, abandoned>>
    /\ UNCHANGED now
    /\ last' = Step("KeyPressMsg", k, NoCmd)
    /\ SanIdle

UpdateTickMsg ==
    /\ pc = "idle"
    /\ UNCHANGED <<now, pc, ch, reading, abandoned>>
    /\ IF a.state = APIKeyInputStateVerifying
       THEN /\ a' = updateStatePresentation(a, now)
            /\ last' = Step("TickMsg", "", SpinnerTick)
       ELSE /\ a' = a
            /\ last' = Step("TickMsg", "", NoCmd)
    /\ SanIdle

(* The state change that refuses to leave Verified *)
UpdateStateChangeMsgFromVerified(s) ==
    /\ pc = "idle"
    /\ a' = updateStatePresentation(
                [a EXCEPT !.state = IF a.state = APIKeyInputStateVerified
                                    THEN a.state ELSE s], now)
    /\ UNCHANGED <<now, pc, ch, reading, abandoned>>
    /\ last' = Step("StateChangeMsg", s,
                    IF s = APIKeyInputStateVerifying THEN SpinnerTick ELSE NoCmd)
    /\ SanIdle

UpdateStateChangeMsg(s) ==
    /\ pc = "idle"
    /\ a' = updateStatePresentation([a EXCEPT !.state = s], now)
    /\ UNCHANGED <<now, pc, ch, reading, abandoned>>
    /\ last' = Step("StateChangeMsg", s,
                    IF s = APIKeyInputStateVerifying THEN SpinnerTick ELSE NoCmd)
    /\ SanIdle

UpdatePasteMsg(msg) ==
    /\ pc = "idle"
    /\ Fits(a.input.value, SanitizePaste(msg))
    /\ a' = handlePasteMsg(a, msg)
    /\ UNCHANGED <<now, pc, ch, reading, abandoned>>
    /\ last' = Step("PasteMsg", msg, NoCmd)
    /\ SanIdle

(* Reset that keeps the text of the input *)
ResetInputKeepsValue(a0, t) ==
    updateStatePresentation(
        [a0 EXCEPT !.state = APIKeyInputStateInitial,
                   !.input = InputFocus(a0.input),
                   !.focused = TRUE,
                   !.lastFocusTime = t], t)

(* Reset *)
ResetInput(a0, t) ==
    updateStatePresentation(
        [a0 EXCEPT !.state = APIKeyInputStateInitial,
                   !.input = InputFocus(InputSetValue(a0.input, <<>>)),
                   !.focused = TRUE,
                   !.lastFocusTime = t], t)

Reset ==
    /\ pc = "idle"
    /\ a' = ResetInput(a, now)
    /\ UNCHANGED <<now, pc, ch, reading, abandoned>>
    /\ last' = Step("Reset", "", NoCmd)
    /\ SanIdle

(* lines 68-71: SetProviderName refreshes the presentation; the name
   itself is only shown *)
SetProviderName ==
    /\ pc = "idle"
    /\ a' = updateStatePresentation(a, now)
    /\ UNCHANGED <<now, pc, ch, reading, abandoned>>
    /\ last' = Step("SetProviderName", "", NoCmd)
    /\ SanIdle

----------------------------------------------------------------------------
(* Update when a call into the text input or the spinner panics *)

(* lines 89-94: Update's results are unnamed, so when its deferred function
   recovers a panic, Update returns the zero values (nil, nil) *)
UpdateRecovered == "nil"

(* lines 293-298: updateTextInput recovers inside its own closure; the
   assignment to a.input did not happen, and it returns (a, nil) *)
updateTextInputRecovered == "a"

(* tea.FocusMsg, a.input.Focus() panics at line 104 *)
UpdateFocusMsgPanic ==
    /\ pc = "idle"
    /\ a' = [a EXCEPT !.focused = TRUE, !.lastFocusTime = now]
    /\ UNCHANGED <<now, pc, ch, reading, abandoned>>
    /\ last' = PanicStep("FocusMsg", "", UpdateRecovered)
    /\ SanIdle

(* an ordinary key, a.input.Update(msg) panics at line 299 *)
UpdateKeyPressMsgPanic(k) ==
    /\ pc = "idle"
    /\ ~IsPasteKey(k)
    /\ a' = KeyFocus(a, now)
    /\ UNCHANGED <<now, pc, ch, reading, abandoned>>
    /\ last' = PanicStep("KeyPressMsg", k, updateTextInputRecovered)
    /\ SanIdle

(* spinner.TickMsg while verifying, a.spinner.Update(msg) panics at line 143 *)
UpdateTickMsgPanic ==
    /\ pc = "idle"
    /\ a.state = APIKeyInputStateVerifying
    /\ UNCHANGED <<a, now, pc, ch, reading, abandoned>>
    /\ last' = PanicStep("TickMsg", "", UpdateRecovered)
    /\ SanIdle

----------------------------------------------------------------------------
(* The clipboard goroutines and the select *)

(* The awaited goroutine: ReadAll returns (or panics), the result is sent *)
ClipboardReturn(outcome) ==
    /\ pc = "select"
    /\ ch = <<>>
    /\ Fits(a.input.value, SanitizeClipboard(outcome.content))
    /\ ch' = <<GoroutineResult(outcome)>>
    /\ reading' = reading - 1
    /\ UNCHANGED <<a, now, pc, abandoned>>
    /\ last' = Step("ClipboardReturn", outcome, last.cmd)
    /\ SanIdle

(* An abandoned goroutine that sends on a channel shared with later reads *)
AbandonedReturnShared(outcome) ==
    /\ abandoned > 0
    /\ reading' = reading - 1
    /\ abandoned' = abandoned - 1
    /\ ch' = <<GoroutineResult(outcome)>>
    /\ UNCHANGED <<a, now, pc>>
    /\ last' = Step("AbandonedReturn", outcome, last.cmd)
    /\ SanIdle

(* An abandoned goroutine on an unbuffered channel: nobody receives, the
   send blocks for ever *)
AbandonedReturnUnbuffered(outcome) ==
    /\ FALSE
    /\ UNCHANGED vars

(* A goroutine abandoned at the deadline: its send fills its own buffered
   channel, which nobody reads, and it exits *)
AbandonedReturn(outcome) ==
    /\ abandoned > 0
    /\ reading' = reading - 1
    /\ abandoned' = abandoned - 1
    /\ UNCHANGED <<a, now, pc, ch>>
    /\ last' = Step("AbandonedReturn", outcome, last.cmd)
    /\ SanIdle

(* case result := <-resultChan *)
SelectResult ==
    /\ pc = "select"
    /\ ch # <<>>
    /\ a' = ApplyClipboardResult(a, ch[1])
    /\ pc' = "idle"
    /\ ch' = <<>>
    /\ UNCHANGED <<now, reading, abandoned>>
    /\ last' = Step("SelectResult", ch[1], NoCmd)
    /\ SanIdle

(* A select without the time.After case *)
SelectWithoutDeadline ==
    /\ FALSE
    /\ UNCHANGED vars

(* A deadline branch that starts the read again and keeps waiting *)
SelectTimeoutRetries ==
    /\ pc = "select"
    /\ ch = <<>>
    /\ reading < MaxReading
    /\ now + 2 * ClipboardDeadline <= MaxTime
    /\ now' = now + ClipboardDeadline
    /\ reading' = reading + 1
    /\ abandoned' = abandoned + 1
    /\ UNCHANGED <<a, pc, ch>>
    /\ last' = Step("SelectTimeout", "", NoCmd)
    /\ SanIdle

(* case <-time.After(1 * time.Second) *)
SelectTimeout ==
    /\ pc = "select"
    /\ ch = <<>>
    /\ now' = now + ClipboardDeadline
    /\ pc' = "idle"
    /\ abandoned' = abandoned + 1
    /\ UNCHANGED <<a, ch, reading>>
    /\ last' = Step("SelectTimeout", "", NoCmd)
    /\ SanIdle

(* Time passes between events *)
Elapse ==
    /\ pc = "idle"
    /\ now < MaxTime
    /\ now' = now + 1
    /\ UNCHANGED <<a, pc, ch, reading, abandoned>>
    /\ last' = Step("Elapse", "", last.cmd)
    /\ SanIdle

(* handleSafePaste called on its own, as a test of the package calls it *)
CallHandleSafePaste ==
    /\ pc = "idle"
    /\ handleSafePaste(a)
    /\ UNCHANGED <<now, abandoned>>
    /\ last' = Step("handleSafePaste", "", NoCmd)
    /\ SanIdle

----------------------------------------------------------------------------
(* The sanitization of both paste paths, applied to every short string *)

SanChars == {"k", SP, LF, CR}

SanInputs == UNION {[1..n -> SanChars] : n \in 0..MaxSanLen}

MainIdle == UNCHANGED <<a, now, pc, ch, reading, abandoned, last>>

SanitizeOnce ==
    /\ sanPc = "in"
    /\ sanOut' = [paste |-> SanitizePaste(sanIn),
                  clip |-> SanitizeClipboard(sanIn),
                  pasteTwice |-> <<>>, clipTwice |-> <<>>]
    /\ sanPc' = "once"
    /\ UNCHANGED sanIn
    /\ MainIdle

SanitizeAgain ==
    /\ sanPc = "once"
    /\ sanOut' = [sanOut EXCEPT !.pasteTwice = SanitizePaste(sanOut.paste),
                                !.clipTwice = SanitizeClipboard(sanOut.clip)]
    /\ sanPc' = "twice"
    /\ UNCHANGED sanIn
    /\ MainIdle

----------------------------------------------------------------------------

InitMain ==
    /\ now = 0
    /\ a = NewAPIKeyInput(0)
    /\ pc = "idle"
    /\ ch = <<>>
    /\ reading = 0
    /\ abandoned = 0
    /\ last = [ev |-> "NewAPIKeyInput", arg |-> "", cmd |-> NoCmd,
               pre |-> NewAPIKeyInput(0), preNow |-> 0,
               prePc |-> "idle", preCh |-> <<>>, launched |-> FALSE,
               panic |-> FALSE, model |-> "a", preReading |-> 0]

Init ==
    /\ InitMain
    /\ sanIn = <<>>
    /\ sanOut = <<>>
    /\ sanPc = "off"

Next ==
    \/ UpdateFocusMsg
    \/ UpdateBlurMsg
    \/ \E k \in Keys : UpdateKeyPressMsg(k)
    \/ UpdateTickMsg
    \/ \E s \in APIKeyInputState : UpdateStateChangeMsg(s)
    \/ \E msg \in Payloads : UpdatePasteMsg(msg)
    \/ Reset
    \/ \E o \in Outcomes : ClipboardReturn(o)
    \/ \E o \in Outcomes : AbandonedReturn(o)
    \/ SelectResult
    \/ SelectTimeout
    \/ Elapse

(* The component driven by the event loop *)
Spec == Init /\ [][Next]_vars

(* The Go runtime fires the timer of time.After and schedules the event
   loop's goroutine: a select that can proceed does proceed.  Nothing is
   assumed of clipboard.ReadAll, which may never return. *)
SpecLive == Init /\ [][Next]_vars /\ WF_vars(SelectResult \/ SelectTimeout)

NextDirect == Next \/ CallHandleSafePaste

(* The component with handleSafePaste also called directly *)
SpecDirect == Init /\ [][NextDirect]_vars

NextRefresh == Next \/ SetProviderName

(* The component with the presentation also refreshed from outside Update *)
SpecRefresh == Init /\ [][NextRefresh]_vars

NextPanic ==
    \/ Next
    \/ UpdateFocusMsgPanic
    \/ \E k \in OtherKeys : UpdateKeyPressMsgPanic(k)
    \/ UpdateTickMsgPanic

(* The component when calls into the text input and the spinner may panic *)
SpecPanic == Init /\ [][NextPanic]_vars

InitSan ==
    /\ InitMain
    /\ sanIn \in SanInputs
    /\ sanOut = <<>>
    /\ sanPc = "in"

NextSan == SanitizeOnce \/ SanitizeAgain

(* The sanitization harness *)
SpecSan == InitSan /\ [][NextSan]_vars

----------------------------------------------------------------------------
(* Vocabulary of the properties *)

NonEditable(st) == st \in {APIKeyInputStateVerifying, APIKeyInputStateVerified}

Editable(st) == st \in {APIKeyInputStateInitial, APIKeyInputStateError}

(* Focus is stale: FocusLost was the last focus event, or the last
   confirmation is more than the threshold old *)
IsStale(a0, t) == a0.focused = FALSE \/ t - a0.lastFocusTime >= FocusThreshold + 1

BufferUnchanged ==
    /\ a.input.value = last.pre.input.value
    /\ a.input.pos = last.pre.input.pos

ShortcutKeyPress == last.ev = "KeyPressMsg" /\ last.arg \in PasteKeys

----------------------------------------------------------------------------
(* C1: in Verifying or Verified, handling a tea.PasteMsg through Update
   leaves the buffer content and the cursor unchanged. *)
C1_HostPasteGated ==
    (last.ev = "PasteMsg" /\ NonEditable(last.pre.state)) => BufferUnchanged

(* C2: in Verifying or Verified, a paste-shortcut key press launches no
   clipboard read and leaves content and cursor unchanged, whatever the
   focus state is. *)
C2_ShortcutPasteGated ==
    (ShortcutKeyPress /\ NonEditable(last.pre.state))
        => /\ ~last.launched
           /\ reading = abandoned
           /\ pc = "idle"
           /\ BufferUnchanged

C2_Witness ==
    /\ ShortcutKeyPress
    /\ last.pre.state = APIKeyInputStateVerified
    /\ ~last.pre.focused
    /\ last.pre.input.value # <<>>

(* C3: a paste-shortcut key press that arrives through Update while focus
   is stale never launches a clipboard read. *)
C3_NoReadWhenStale ==
    (ShortcutKeyPress /\ IsStale(last.pre, last.preNow)) => ~last.launched

(* C4: handleSafePaste run in an editable state with stale focus issues no
   clipboard read, leaves content and cursor unchanged, returns no command,
   and leaves focused = true and lastFocusTime = now, which is fresh. *)
C4_StaleFocusRecovery ==
    (/\ last.ev = "handleSafePaste"
     /\ Editable(last.pre.state)
     /\ IsStale(last.pre, last.preNow))
        => /\ ~last.launched
           /\ reading = abandoned
           /\ pc = "idle"
           /\ BufferUnchanged
           /\ last.cmd = NoCmd
           /\ a.focused
           /\ a.lastFocusTime = now
           /\ ~IsStale(a, now)

C4_Witness ==
    /\ last.ev = "handleSafePaste"
    /\ Editable(last.pre.state)
    /\ last.pre.focused
    /\ last.preNow - last.pre.lastFocusTime > FocusThreshold
    /\ last.pre.input.value # <<>>

(* The sanitized text, said without the operators of the model: the
   newlines dropped, then the longest piece without white space at either
   end *)
RECURSIVE WithoutNewlines(_)
WithoutNewlines(s) ==
    IF s = <<>> THEN <<>>
    ELSE IF Head(s) = "\n" THEN WithoutNewlines(Tail(s))
    ELSE <<Head(s)>> \o WithoutNewlines(Tail(s))

IsWhitespace(c) == c = " " \/ c = "\n" \/ c = "\r" \/ c = "\t"

IsTrimOf(out, s) ==
    \E i \in 1..(Len(s) + 1) : \E j \in 0..Len(s) :
        /\ out = SubSeq(s, i, j)
        /\ \A n \in 1..(i - 1) : IsWhitespace(s[n])
        /\ \A n \in (j + 1)..Len(s) : IsWhitespace(s[n])
        /\ out # <<>> => ~IsWhitespace(out[1]) /\ ~IsWhitespace(out[Len(out)])

IsSanitized(out, s) == IsTrimOf(out, WithoutNewlines(s))

Sanitized(s) ==
    LET t == WithoutNewlines(s)
    IN  CHOOSE out \in {SubSeq(t, i, j) : i \in 1..(Len(t) + 1), j \in 0..Len(t)} :
            IsTrimOf(out, t)

(* text spliced into v at offset c *)
SplicedAt(v, c, text) ==
    [n \in 1..(Len(v) + Len(text)) |->
        IF n <= c THEN v[n]
        ELSE IF n <= c + Len(text) THEN text[n - c]
        ELSE v[n - Len(text)]]

Contains(v, text) ==
    \E i \in 1..(Len(v) + 1) : SubSeq(v, i, i + Len(text) - 1) = text

----------------------------------------------------------------------------
(* C5: a paste that launched a read returns control to the event loop: the
   key press that launches the read leaves content, cursor and lifecycle
   state as they were; the wait in the select starts at the time of the key
   press; the deadline branch can always be taken while no result has
   arrived; taking it leaves the component unchanged, one deadline after
   the key press, with the loop ready for further events; and under the
   runtime's scheduling every wait in the select ends, whatever the gateway
   does. *)
C5_TimeoutBound ==
    /\ []((ShortcutKeyPress /\ last.launched)
            => /\ BufferUnchanged
               /\ a.state = last.pre.state
               /\ pc = "select")
    /\ [](pc = "select" => now = a.lastFocusTime)
    /\ []((pc = "select" /\ ch = <<>>) => ENABLED SelectTimeout)
    /\ [](last.ev = "SelectTimeout"
            => /\ a = last.pre
               /\ pc = "idle"
               /\ now = a.lastFocusTime + ClipboardDeadline
               /\ ENABLED UpdateBlurMsg
               /\ ENABLED UpdatePasteMsg(<<>>))
    /\ ((pc = "select") ~> (pc = "idle"))

C5_Witness ==
    /\ last.ev = "SelectTimeout"
    /\ reading > 0
    /\ last.pre.input.value # <<>>

(* C6: a clipboard task completing, after the deadline branch was taken or
   before, never changes the component (buffer, cursor, lifecycle state,
   focus state) nor the position of the event loop; an abandoned task does
   not touch the channel the event loop reads either. *)
C6_LateResultDiscarded ==
    (last.ev = "AbandonedReturn" \/ last.ev = "ClipboardReturn")
        => /\ a = last.pre
           /\ now = last.preNow
           /\ pc = last.prePc
           /\ last.ev = "AbandonedReturn" => ch = last.preCh

C6_Witness ==
    /\ last.ev = "AbandonedReturn"
    /\ last.arg.kind = "text"
    /\ Sanitized(last.arg.content) # <<>>
    /\ pc = "select"
    /\ a.input.value # <<>>

(* C7, as stated: at most one clipboard read is outstanding at any time. *)
C7_AtMostOneOutstanding == reading <= 1

(* C7, amended: the outstanding reads are the abandoned ones, whose select
   took the deadline branch, plus at most one more, which exists exactly
   while the event loop waits in the select with nothing received. *)
C7_AtMostOneAwaited ==
    reading = abandoned + (IF pc = "select" /\ ch = <<>> THEN 1 ELSE 0)

C7_Witness ==
    /\ reading = 2
    /\ abandoned = 1
    /\ pc = "select"

(* C8: when the select receives text without error whose sanitized form is
   not empty, the new content is the old content with the sanitized text
   inserted at the old cursor, and the new cursor is the old cursor plus the
   length of the sanitized text; "old" + "sk-test123\n" gives
   "oldsk-test123" with the cursor at 13. *)
C8_ShortcutPasteSplices ==
    /\ (/\ last.ev = "SelectResult"
        /\ ~last.arg.err
        /\ Sanitized(last.arg.content) # <<>>)
            => LET text == Sanitized(last.arg.content)
               IN  /\ Editable(last.pre.state)
                   /\ a.input.value =
                          SplicedAt(last.pre.input.value, last.pre.input.pos, text)
                   /\ a.input.pos = last.pre.input.pos + Len(text)
    /\ ApplyClipboardResult(
           [NewAPIKeyInput(0) EXCEPT
               !.input = [value |-> <<"o", "l", "d">>, pos |-> 3, focus |-> TRUE]],
           [content |-> <<"s", "k", "-", "t", "e", "s", "t", "1", "2", "3", "\n">>,
            err |-> FALSE]).input
         = [value |-> <<"o", "l", "d", "s", "k", "-", "t", "e", "s", "t", "1", "2", "3">>,
            pos |-> 13, focus |-> TRUE]

C8_Witness ==
    /\ last.ev = "SelectResult"
    /\ ~last.arg.err
    /\ Sanitized(last.arg.content) # <<>>
    /\ Sanitized(last.arg.content) # last.arg.content
    /\ last.pre.input.pos > 0
    /\ last.pre.input.pos < Len(last.pre.input.value)

(* C9: in Initial or Error, a tea.PasteMsg whose sanitized payload is not
   empty inserts the sanitized text at the cursor, the text before and after
   the cursor kept in order, and advances the cursor by the inserted length;
   the content then contains the pasted text. *)
C9_HostPasteSplices ==
    (/\ last.ev = "PasteMsg"
     /\ Editable(last.pre.state)
     /\ Sanitized(last.arg) # <<>>)
        => LET text == Sanitized(last.arg)
           IN  /\ a.input.value =
                      SplicedAt(last.pre.input.value, last.pre.input.pos, text)
               /\ a.input.pos = last.pre.input.pos + Len(text)
               /\ Contains(a.input.value, text)

C9_Witness ==
    /\ last.ev = "PasteMsg"
    /\ last.pre.state = APIKeyInputStateError
    /\ Sanitized(last.arg) # <<>>
    /\ Sanitized(last.arg) # last.arg
    /\ last.pre.input.pos > 0
    /\ last.pre.input.pos < Len(last.pre.input.value)

(* C10: the sanitized text is the input with the newlines removed and then
   the leading and trailing white space trimmed; it holds no newline and
   neither starts nor ends with white space; both paste paths compute the
   same; sanitizing twice equals sanitizing once;
   sanitize("sk-abc\n123 ") = "sk-abc123" and sanitize("   \n  ") = "". *)
C10_Sanitization ==
    /\ sanPc \in {"once", "twice"}
        => /\ IsSanitized(sanOut.paste, sanIn)
           /\ sanOut.clip = sanOut.paste
           /\ \A n \in 1..Len(sanOut.paste) : sanOut.paste[n] # "\n"
           /\ sanOut.paste # <<>>
                => /\ ~IsWhitespace(sanOut.paste[1])
                   /\ ~IsWhitespace(sanOut.paste[Len(sanOut.paste)])
    /\ sanPc = "twice"
        => /\ sanOut.pasteTwice = sanOut.paste
           /\ sanOut.clipTwice = sanOut.clip
    /\ SanitizePaste(<<"s", "k", "-", "a", "b", "c", "\n", "1", "2", "3", " ">>)
         = <<"s", "k", "-", "a", "b", "c", "1", "2", "3">>
    /\ SanitizeClipboard(<<" ", " ", " ", "\n", " ", " ">>) = <<>>

C10_Witness ==
    /\ sanPc = "twice"
    /\ Len(sanIn) = MaxSanLen
    /\ sanOut.paste # <<>>
    /\ Len(sanOut.paste) < Len(WithoutNewlines(sanIn))
    /\ Len(WithoutNewlines(sanIn)) < Len(sanIn)

----------------------------------------------------------------------------
(* C11: in any lifecycle state, a tea.PasteMsg whose payload is empty or
   only white space and newlines, and a clipboard result without error whose
   content is empty or only white space and newlines, leave the buffer
   content and the cursor unchanged and return no command. *)
C11_EmptyPasteNoOp ==
    /\ (last.ev = "PasteMsg" /\ Sanitized(last.arg) = <<>>)
            => BufferUnchanged /\ last.cmd = NoCmd
    /\ (/\ last.ev = "SelectResult"
        /\ ~last.arg.err
        /\ Sanitized(last.arg.content) = <<>>)
            => BufferUnchanged /\ last.cmd = NoCmd /\ a = last.pre

C11_Witness ==
    /\ last.ev = "PasteMsg"
    /\ last.arg # <<>>
    /\ Sanitized(last.arg) = <<>>
    /\ last.pre.state = APIKeyInputStateVerifying
    /\ last.pre.input.value # <<>>
    /\ last.pre.input.pos < Len(last.pre.input.value)

----------------------------------------------------------------------------
(* C12: when the awaited read completes before the deadline and reports an
   error, the select takes the result branch at the time of the key press
   and returns at once: buffer content, cursor, lifecycle state and the
   rest of the component are as before, the command is nil, and the event
   loop is idle again and takes further events. *)
C12_GatewayErrorNoOp ==
    (last.ev = "SelectResult" /\ last.arg.err)
        => /\ BufferUnchanged
           /\ a.state = last.pre.state
           /\ a = last.pre
           /\ last.cmd = NoCmd
           /\ now = a.lastFocusTime
           /\ pc = "idle"
           /\ ENABLED UpdateBlurMsg
           /\ ENABLED UpdatePasteMsg(<<>>)
           /\ ENABLED UpdateKeyPressMsg("left")

C12_Witness ==
    /\ last.ev = "SelectResult"
    /\ last.arg.err
    /\ last.pre.input.value # <<>>
    /\ last.pre.input.pos < Len(last.pre.input.value)
    /\ last.pre.state = APIKeyInputStateError

(* C13: a panic of clipboard.ReadAll inside the goroutine is recovered
   there and sent on resultChan as a result with an error; the event loop,
   still waiting in the select, receives it and returns with the component
   unchanged (buffer and cursor included), idle and taking further events. *)
C13_GatewayPanicContained ==
    /\ (last.ev = "ClipboardReturn" /\ last.arg.kind = "panic")
            => /\ ch = <<[content |-> <<>>, err |-> TRUE]>>
               /\ a = last.pre
               /\ pc = "select"
               /\ ENABLED SelectResult
    /\ (last.ev = "SelectResult" /\ last.arg = [content |-> <<>>, err |-> TRUE])
            => /\ BufferUnchanged
               /\ a = last.pre
               /\ pc = "idle"
               /\ ENABLED UpdateFocusMsg
               /\ ENABLED UpdatePasteMsg(<<>>)

C13_Witness ==
    /\ last.ev = "ClipboardReturn"
    /\ last.arg.kind = "panic"
    /\ a.input.value # <<>>
    /\ a.input.pos > 0

(* C14: whatever message Update handles and whichever callee panics while
   it does, Update returns the component itself as its tea.Model, not nil,
   and the buffer content is as before. *)
C14_UpdateSurvivesPanic ==
    last.panic
        => /\ last.model = "a"
           /\ a.input.value = last.pre.input.value

(* C15: while the lifecycle state is Verifying or Verified, handling a
   tea.FocusMsg, a tea.BlurMsg, a spinner.TickMsg or an ordinary key press
   leaves the buffer content as it was. *)
C15_NonEditableKeepsContent ==
    (/\ NonEditable(last.pre.state)
     /\ \/ last.ev \in {"FocusMsg", "BlurMsg", "TickMsg"}
        \/ last.ev = "KeyPressMsg" /\ last.arg \in OtherKeys)
        => a.input.value = last.pre.input.value

(* C16: handling a tea.PasteMsg never starts a clipboard read and never
   enters the select; in Initial or Error it inserts its non-empty
   sanitized payload at the cursor also when focused is false or the last
   focus confirmation is more than the threshold old, and leaves focused
   and lastFocusTime as they were. *)
C16_HostPasteBypassesGate ==
    last.ev = "PasteMsg"
        => /\ ~last.launched
           /\ pc = "idle"
           /\ ch = <<>>
           /\ (/\ Editable(last.pre.state)
               /\ Sanitized(last.arg) # <<>>
               /\ IsStale(last.pre, last.preNow))
                   => /\ a.input.value =
                            SplicedAt(last.pre.input.value, last.pre.input.pos,
                                      Sanitized(last.arg))
                      /\ a.input.pos = last.pre.input.pos + Len(Sanitized(last.arg))
                      /\ a.focused = last.pre.focused
                      /\ a.lastFocusTime = last.pre.lastFocusTime

C16_Witness ==
    /\ last.ev = "PasteMsg"
    /\ Editable(last.pre.state)
    /\ Sanitized(last.arg) # <<>>
    /\ ~last.pre.focused
    /\ last.preNow - last.pre.lastFocusTime > FocusThreshold
    /\ last.pre.input.value # <<>>
    /\ reading > 0

(* The text input is as updateStatePresentation leaves it for the
   lifecycle state of a0 *)
PresentationCurrent(a0, t) == updateStatePresentation(a0, t).input = a0.input

(* C17: once updateStatePresentation has been applied for the current
   lifecycle state, the text input is focused after a tea.PasteMsg if and
   only if the state is Initial or Error; handling the message in Verifying
   or Verified never changes the focus of the text input, and in Initial or
   Error it always leaves the text input focused. *)
C17_WidgetFocusAfterHostPaste ==
    last.ev = "PasteMsg"
        => /\ a.state = last.pre.state
           /\ NonEditable(last.pre.state) => a.input.focus = last.pre.input.focus
           /\ Editable(last.pre.state) => a.input.focus
           /\ PresentationCurrent(last.pre, last.preNow)
                => (a.input.focus <=> Editable(a.state))

C17_Witness ==
    /\ last.ev = "PasteMsg"
    /\ last.pre.state = APIKeyInputStateVerified
    /\ PresentationCurrent(last.pre, last.preNow)
    /\ Sanitized(last.arg) # <<>>
    /\ a.input.value # last.pre.input.value
    /\ ~a.input.focus

(* C18: whatever state Reset is called in, it leaves the content empty,
   the cursor at 0, the lifecycle state Initial, focused true and the text
   input focused; a second Reset right after, or at any later time, can be
   taken and gives the same, only lastFocusTime following the clock. *)
C18_Reset ==
    last.ev = "Reset"
        => /\ a.input = [value |-> <<>>, pos |-> 0, focus |-> TRUE]
           /\ a.state = APIKeyInputStateInitial
           /\ a.focused
           /\ a.lastFocusTime = now
           /\ ENABLED Reset
           /\ ResetInput(a, now) = a
           /\ \A t \in now..MaxTime :
                  ResetInput(a, t) = [a EXCEPT !.lastFocusTime = t]

C18_Witness ==
    /\ last.ev = "Reset"
    /\ last.pre.state = APIKeyInputStateVerified
    /\ last.pre.input.value # <<>>
    /\ last.pre.input.pos > 0
    /\ ~last.pre.focused
    /\ ~last.pre.input.focus
    /\ reading > 0

(* C19: only an APIKeyStateChangeMsg and Reset change the lifecycle state:
   key presses (ordinary or paste shortcut), tea.PasteMsg, tea.FocusMsg,
   tea.BlurMsg, spinner.TickMsg, the completion of a clipboard read and
   both branches of the select (text, error, deadline) leave it as it was. *)
C19_StateOnlyByStateChange ==
    /\ last.ev \in {"KeyPressMsg", "PasteMsg", "FocusMsg", "BlurMsg", "TickMsg",
                    "ClipboardReturn", "AbandonedReturn", "SelectResult",
                    "SelectTimeout", "Elapse"}
            => a.state = last.pre.state
    /\ a.state # last.pre.state => last.ev \in {"StateChangeMsg", "Reset"}

C19_Witness ==
    /\ last.ev = "SelectResult"
    /\ ~last.arg.err
    /\ last.pre.state = APIKeyInputStateError
    /\ a.input.value # last.pre.input.value

(* C20: an APIKeyStateChangeMsg can be handled in each of the four
   lifecycle states for each of the four new states; it sets the state to
   the new state, leaves buffer content and cursor unchanged, and returns
   the spinner's tick command if and only if the new state is Verifying. *)
C20_StateChange ==
    /\ pc = "idle" => \A s \in APIKeyInputState : ENABLED UpdateStateChangeMsg(s)
    /\ last.ev = "StateChangeMsg"
            => /\ a.state = last.arg
               /\ BufferUnchanged
               /\ last.cmd = SpinnerTick <=> last.arg = APIKeyInputStateVerifying
               /\ last.cmd \in {SpinnerTick, NoCmd}

C20_Witness ==
    /\ last.ev = "StateChangeMsg"
    /\ last.pre.state = APIKeyInputStateVerified
    /\ last.arg = APIKeyInputStateVerifying
    /\ last.pre.input.value # <<>>
    /\ last.pre.input.pos > 0
    /\ last.pre.input.pos < Len(last.pre.input.value)

----------------------------------------------------------------------------
(* C21: a clipboard read is started only by the handling of a paste-shortcut
   key press, in Initial or Error, and that handling starts exactly one;
   the deadline branch and the result branch of the select (error
   included) start none and leave the event loop idle with no read awaited,
   and no other step starts one, so the reads started never outnumber the
   paste-shortcut key presses. *)
C21_NoAutomaticRetry ==
    /\ last.launched
            => /\ ShortcutKeyPress
               /\ Editable(last.pre.state)
               /\ reading = last.preReading + 1
               /\ pc = "select"
    /\ (ShortcutKeyPress /\ Editable(last.pre.state)) => last.launched
    /\ reading <= last.preReading + 1
    /\ ~ShortcutKeyPress => reading <= last.preReading
    /\ last.ev \in {"SelectTimeout", "SelectResult"}
            => /\ ~last.launched
               /\ reading = last.preReading
               /\ reading = abandoned
               /\ pc = "idle"

C21_Witness ==
    /\ ShortcutKeyPress
    /\ last.launched
    /\ last.preReading = 1
    /\ abandoned = 1

(* C22: handling a tea.BlurMsg sets focused to false and changes nothing
   else: the text input keeps its focus, its content and its cursor,
   lastFocusTime and the lifecycle state stay, no read is started, and the
   command is nil. *)
C22_BlurMsgEffect ==
    last.ev = "BlurMsg"
        => /\ a.focused = FALSE
           /\ a.input = last.pre.input
           /\ a.lastFocusTime = last.pre.lastFocusTime
           /\ a.state = last.pre.state
           /\ a = [last.pre EXCEPT !.focused = FALSE]
           /\ last.cmd = NoCmd
           /\ ~last.launched
           /\ now = last.preNow
           /\ pc = "idle"

C22_Witness ==
    /\ last.ev = "BlurMsg"
    /\ last.pre.focused
    /\ last.pre.input.focus
    /\ a.input.focus
    /\ last.pre.input.value # <<>>
    /\ last.preNow > last.pre.lastFocusTime

(* C23: after a tea.FocusMsg and after every key press, paste shortcut or
   not, in every lifecycle state, focused is true and lastFocusTime is the
   time the message was handled, also when the handling ends in the select;
   over every step lastFocusTime never decreases and never lies in the
   future. *)
C23_FocusConfirmation ==
    /\ last.ev \in {"FocusMsg", "KeyPressMsg"}
            => /\ a.focused
               /\ a.lastFocusTime = last.preNow
               /\ now = last.preNow
    /\ (last.ev \in {"SelectResult", "SelectTimeout"})
            => /\ a.focused
               /\ a.lastFocusTime = last.pre.lastFocusTime
    /\ a.lastFocusTime >= last.pre.lastFocusTime
    /\ a.lastFocusTime <= now
    /\ now >= last.preNow

C23_Witness ==
    /\ last.ev = "KeyPressMsg"
    /\ last.arg \in OtherKeys
    /\ last.pre.state = APIKeyInputStateVerifying
    /\ ~last.pre.focused
    /\ last.preNow > last.pre.lastFocusTime

(* C24: in every reachable state, whatever keys, pastes of both paths with
   every outcome of the read, state changes and resets came before, the
   cursor lies between 0 and the length of the content; so the offset each
   splice uses, the cursor before the step, is a valid offset of the
   content before the step. *)
C24_CursorBounds ==
    /\ 0 <= a.input.pos
    /\ a.input.pos <= Len(a.input.value)
    /\ 0 <= last.pre.input.pos
    /\ last.pre.input.pos <= Len(last.pre.input.value)

C24_Witness ==
    /\ last.ev = "Reset"
    /\ last.pre.input.pos = MaxContent
    /\ a.input.pos = 0

(* C25: a key press of ctrl+v, ctrl+shift+v or shift+insert goes to
   handleSafePaste and not to the text input: within that step content and
   cursor stay, and in Initial or Error the read is started; every other
   key press goes to the text input, which applies it if it has the focus,
   and starts no read and does not enter the select. *)
C25_ShortcutRouting ==
    /\ ShortcutKeyPress
            => /\ BufferUnchanged
               /\ Editable(last.pre.state) => (last.launched /\ pc = "select")
    /\ (last.ev = "KeyPressMsg" /\ last.arg \in OtherKeys)
            => /\ ~last.launched
               /\ pc = "idle"
               /\ reading = last.preReading
               /\ (last.pre.input.focus /\ last.arg = "a")
                    => /\ a.input.value =
                             SplicedAt(last.pre.input.value, last.pre.input.pos, <<"a">>)
                       /\ a.input.pos = last.pre.input.pos + 1
               /\ (last.pre.input.focus /\ last.arg = "left")
                    => /\ a.input.value = last.pre.input.value
                       /\ a.input.pos =
                             (IF last.pre.input.pos = 0 THEN 0
                              ELSE last.pre.input.pos - 1)
               /\ ~last.pre.input.focus => BufferUnchanged

C25_Witness ==
    /\ ShortcutKeyPress
    /\ last.arg = "shift+insert"
    /\ last.launched
    /\ last.pre.input.value # <<>>
    /\ last.pre.input.pos > 0

(* C26: after an APIKeyStateChangeMsg to Error, and after any refresh of
   the presentation while the state is Error, focused is true,
   lastFocusTime is the time of the step and the text input is focused, so
   the focus check of handleSafePaste finds the focus fresh; after an
   APIKeyStateChangeMsg to Verifying or Verified the text input is blurred
   and focused and lastFocusTime are as before. *)
C26_ErrorReassertsFocus ==
    /\ (\/ last.ev = "StateChangeMsg" /\ last.arg = APIKeyInputStateError
        \/ last.ev = "SetProviderName" /\ last.pre.state = APIKeyInputStateError)
            => /\ a.state = APIKeyInputStateError
               /\ a.focused
               /\ a.lastFocusTime = now
               /\ a.input.focus
               /\ ~IsStale(a, now)
               /\ ~FocusLost(a, now)
               /\ BufferUnchanged
    /\ (last.ev = "StateChangeMsg" /\ NonEditable(last.arg))
            => /\ ~a.input.focus
               /\ a.focused = last.pre.focused
               /\ a.lastFocusTime = last.pre.lastFocusTime
               /\ BufferUnchanged

C26_Witness ==
    /\ last.ev = "SetProviderName"
    /\ last.pre.state = APIKeyInputStateError
    /\ ~last.pre.focused
    /\ last.preNow - last.pre.lastFocusTime > FocusThreshold
    /\ last.pre.input.value # <<>>

(* C27: from the start of the read to the end of the select no handler
   runs: while the event loop is in the select no message can be handled,
   the only steps are completions of clipboard goroutines, and they leave
   the component as it is; so the select ends on the component exactly as
   the paste-shortcut key press left it, with content and cursor as they
   were when the key was pressed, and the component is written only by
   steps of the event loop. *)
C27_PasteAtomic ==
    /\ pc = "select"
            => /\ ~ENABLED UpdateFocusMsg
               /\ ~ENABLED UpdateBlurMsg
               /\ ~ENABLED UpdateTickMsg
               /\ ~ENABLED Reset
               /\ \A k \in Keys : ~ENABLED UpdateKeyPressMsg(k)
               /\ \A s \in APIKeyInputState : ~ENABLED UpdateStateChangeMsg(s)
               /\ \A msg \in Payloads : ~ENABLED UpdatePasteMsg(msg)
               /\ \/ ShortcutKeyPress /\ last.launched /\ BufferUnchanged
                  \/ last.ev \in {"ClipboardReturn", "AbandonedReturn"}
               /\ a.lastFocusTime = now
    /\ last.ev \in {"ClipboardReturn", "AbandonedReturn", "Elapse"} => a = last.pre
    /\ last.ev \in {"SelectResult", "SelectTimeout"}
            => /\ last.prePc = "select"
               /\ last.pre.lastFocusTime = last.preNow
               /\ pc = "idle"
    /\ last.ev = "SelectTimeout" => a = last.pre

C27_Witness ==
    /\ last.ev = "SelectResult"
    /\ ~last.arg.err
    /\ a.input.value # last.pre.input.value
    /\ last.pre.input.pos > 0
    /\ abandoned > 0

(* C28: every clipboard goroutine sends once on its own channel of
   capacity 1 and is gone: the awaited one finds the channel empty, and the
   channel then holds that one result with no goroutine left to send a
   second; an abandoned one can always complete, whatever ReadAll did and
   wherever the event loop is, and completing ends it. *)
C28_SingleUseChannel ==
    /\ Len(ch) <= 1
    /\ abandoned >= 0
    /\ reading - abandoned \in {0, 1}
    /\ reading > abandoned => (pc = "select" /\ ch = <<>>)
    /\ ch # <<>> => (pc = "select" /\ reading = abandoned)
    /\ (pc = "select" /\ ch = <<>>)
            => \A o \in Outcomes :
                   Fits(a.input.value, Sanitized(o.content)) => ENABLED ClipboardReturn(o)
    /\ abandoned > 0 => \A o \in Outcomes : ENABLED AbandonedReturn(o)
    /\ last.ev = "ClipboardReturn"
            => /\ last.preCh = <<>>
               /\ Len(ch) = 1
               /\ ch[1].err = (last.arg.kind # "text")
               /\ reading = last.preReading - 1
               /\ \A o \in Outcomes : ~ENABLED ClipboardReturn(o)
    /\ last.ev = "AbandonedReturn"
            => /\ reading = last.preReading - 1
               /\ ch = last.preCh

C28_Witness ==
    /\ last.ev = "AbandonedReturn"
    /\ last.arg.kind = "panic"
    /\ pc = "idle"
    /\ reading = 0
    /\ last.preReading = 1

====
